---- MODULE Spec2Model ----
(***************************************************************************)
(* Model of streamlit_circle_app.py: one Streamlit script run ("cycle")    *)
(* per user action.  A cycle reads the form, samples the points on the     *)
(* circle, builds and shows the Matplotlib figure, shows the coordinate    *)
(* table and, when the export button was pressed, calls generate_pdf.      *)
(*                                                                         *)
(* Numbers.  Plot coordinates are Python floats: they are modelled in      *)
(* binary fixed point (1.0 = 2^13 units) with round-to-nearest-even to a   *)
(* significand of Prec bits (53 in the build, scaled down here so that the *)
(* rounding cases lie inside TLC's integer range).  Page layout values are *)
(* exact rationals in points (reportlab's A4 is 210mm x 297mm, 1mm =       *)
(* 72/25.4 pt): their magnitudes are below 2^11, where binary64 rounding   *)
(* is a relative 1e-16 and no comparison of the layout depends on it.      *)
(***************************************************************************)
EXTENDS Integers, Sequences, FiniteSets, TLC

\* ------------------------------------------------------------------ bounds
MaxCount == 2           \* n_points ranges over 1..MaxCount
MaxRadiusSteps == 2     \* radius ranges over 0.0, 1.0, ..., MaxRadiusSteps
MaxImgDim == 2          \* rasterized image sides range over 0, 400, ..., 400*MaxImgDim px
Prec == 9               \* bits of the floating-point significand

\* ------------------------------------------------ integers and rationals
Abs(a) == IF a < 0 THEN -a ELSE a

Max(a, b) == IF a >= b THEN a ELSE b

RECURSIVE GCD(_, _)
GCD(a, b) == IF b = 0 THEN a ELSE GCD(b, a % b)

RECURSIVE Pow2(_)
Pow2(e) == IF e = 0 THEN 1 ELSE 2 * Pow2(e - 1)

\* number of bits of a natural number
RECURSIVE BitLen(_)
BitLen(a) == IF a = 0 THEN 0 ELSE 1 + BitLen(a \div 2)

\* a rational n/d in lowest terms, d > 0
Rat(n, d) ==
    LET g == GCD(Abs(n), Abs(d))
        s == IF d < 0 THEN -1 ELSE 1
    IN  [n |-> s * (n \div g), d |-> s * (d \div g)]

RInt(a) == [n |-> a, d |-> 1]

RSub(a, b) ==
    LET g == GCD(a.d, b.d)
    IN  Rat(a.n * (b.d \div g) - b.n * (a.d \div g), (a.d \div g) * b.d)

RMul(a, b) ==
    LET g1 == GCD(Abs(a.n), b.d)
        g2 == GCD(Abs(b.n), a.d)
    IN  Rat((a.n \div g1) * (b.n \div g2), (a.d \div g2) * (b.d \div g1))

\* a / b for an integer b > 0
RDivInt(a, b) == RMul(a, Rat(1, b))

RLe(a, b) ==
    LET g == GCD(a.d, b.d)
    IN  a.n * (b.d \div g) <= b.n * (a.d \div g)

RLt(a, b) == RLe(a, b) /\ a # b

RMin(a, b) == IF RLe(a, b) THEN a ELSE b

\* ---------------------------------------------------------- Python floats
Unit == 8192            \* fixed-point units per 1.0

\* round-half-even of a / 2^e
RoundShift(a, e) ==
    LET p == Pow2(e)
        q == a \div p
        r == a % p
    IN  IF 2 * r > p \/ (2 * r = p /\ q % 2 = 1) THEN q + 1 ELSE q

\* the result of a float operation whose exact value is v
Fl(v) ==
    LET e == Max(0, BitLen(Abs(v)) - Prec)
    IN  Pow2(e) * RoundShift(v, e)

FAdd(a, b) == Fl(a + b)

FSub(a, b) == Fl(a - b)

\* a * b where b is a factor in units (b / Unit)
FMul(a, b) == Fl((2 * a * b + Unit) \div (2 * Unit))

\* ------------------------------------------------------- numpy cos and sin
TwoPi == 51472          \* 2*pi in units

\* the angle of p/q of a full turn, in units of radians
Rad(p, q) == (2 * TwoPi * p + q) \div (2 * q)

\* cos x for 0 <= x <= pi/4, by its series in fixed point
CosSeries(x) ==
    LET t  == (x * x) \div Unit
        t2 == (t * t) \div Unit
        t3 == (t2 * t) \div Unit
    IN  Unit - (t \div 2) + (t2 \div 24) - (t3 \div 720)

\* sin x for 0 <= x <= pi/4
SinSeries(x) ==
    LET t  == (x * x) \div Unit
        t2 == (t * t) \div Unit
        t3 == (t2 * t) \div Unit
    IN  (x * (Unit - (t \div 6) + (t2 \div 120) - (t3 \div 5040))) \div Unit

\* cos of p/q of a turn, 0 <= 4p <= q (first quadrant)
CosQ(p, q) ==
    IF p = 0 THEN Unit
    ELSE IF 4 * p = q THEN 0
    ELSE IF 8 * p <= q THEN CosSeries(Rad(p, q))
    ELSE SinSeries(Rad(q - 4 * p, 4 * q))

\* np.cos of the angle f turns (f a rational), in units
Cos(f) ==
    LET a == f.n % f.d
        b == IF 2 * a > f.d THEN f.d - a ELSE a
    IN  IF 4 * b <= f.d THEN CosQ(b, f.d) ELSE -CosQ(f.d - 2 * b, 2 * f.d)

\* np.sin of the angle f turns: sin x = cos(x - pi/2)
Sin(f) == Cos([n |-> 4 * f.n - f.d, d |-> 4 * f.d])

\* ------------------------------------------------------------- geometry
\* np.linspace(0, 2*pi, n, endpoint=False), in turns: k/n for k = 0..n-1
LinspaceBug(n) ==
    [i \in 1..n |-> Rat(i - 1, IF n > 1 THEN n - 1 ELSE 1)]

Linspace(n) == [i \in 1..n |-> Rat(i - 1, n)]

\* xs = cx + radius * np.cos(angles)
PointsX(f, angs) == [i \in 1..Len(angs) |-> FAdd(f.cx, FMul(f.radius, Cos(angs[i])))]

\* ys = cy + radius * np.sin(angles)
PointsY(f, angs) == [i \in 1..Len(angs) |-> FAdd(f.cy, FMul(f.radius, Sin(angs[i])))]

\* --------------------------------------------------------------- the form
DefaultCount == 12      \* n_points, value=12
PointSize == 6          \* point_size slider, default 6
OutlineRes == 400       \* samples of the circle outline

\* a centre so large that adding 0.1 to it is lost in rounding
BigCenter == Pow2(Prec + 13)

FieldValues ==
    [cx             |-> {0, -3 * (Unit \div 2), BigCenter},
     cy             |-> {0, Unit \div 2},
     radius         |-> {Unit * k : k \in 0..MaxRadiusSteps},
     n_points       |-> (1..MaxCount) \cup {DefaultCount},
     unit           |-> {"m", "cm"},
     color          |-> {"#ff0000"},
     point_size     |-> {PointSize},
     show_grid      |-> {TRUE},
     show_labels    |-> BOOLEAN,
     author_name    |-> {"", "Ada"},
     author_contact |-> {"", "ada@example.org"},
     notes          |-> {"", "draft"}]

Fields == DOMAIN FieldValues

\* the widgets' default values
DefaultForm ==
    [cx |-> 0, cy |-> 0, radius |-> Unit, n_points |-> DefaultCount, unit |-> "m",
     color |-> "#ff0000", point_size |-> PointSize, show_grid |-> TRUE,
     show_labels |-> TRUE, author_name |-> "", author_contact |-> "", notes |-> ""]

\* ------------------------------------------------------------ the figure
NoFig == [built |-> FALSE]

\* the float literal 0.1
Tenth == Fl(Unit \div 10)

\* pad = max(0.1*radius, 0.1)
PadNoFloor(r) == FMul(r, Tenth)

Pad(r) == Max(FMul(r, Tenth), Tenth)

\* (c - radius - pad, c + radius + pad), as passed to set_xlim / set_ylim
Limits(c, r) == <<FSub(FSub(c, r), Pad(r)), FAdd(FAdd(c, r), Pad(r))>>

\* the index annotations: enumerate(zip(xs, ys), start=1)
Annotations(px, py) ==
    [i \in 1..Len(px) |-> [x |-> px[i], y |-> py[i], s |-> i]]

\* the figure after lines 65-94
Figure(f, px, py) ==
    [built   |-> TRUE,
     outline |-> [cx |-> f.cx, cy |-> f.cy, radius |-> f.radius, n |-> OutlineRes],
     points  |-> [xs |-> px, ys |-> py, s |-> f.point_size * f.point_size,
                  color |-> f.color, label |-> <<f.n_points, " bodu">>],
     center  |-> [x |-> f.cx, y |-> f.cy, s |-> (9 * f.point_size * f.point_size) \div 4,
                  color |-> "black", marker |-> "+", label |-> "stred"],
     xlim    |-> Limits(f.cx, f.radius),
     ylim    |-> Limits(f.cy, f.radius),
     pad     |-> Pad(f.radius),
     grid    |-> f.show_grid,
     xlabel  |-> IF f.show_labels THEN <<"x [", f.unit, "]">> ELSE <<>>,
     ylabel  |-> IF f.show_labels THEN <<"y [", f.unit, "]">> ELSE <<>>,
     legend  |-> f.show_labels,
     texts   |-> Annotations(px, py)]

\* a PNG rasterization of figure fg: what is drawn, at which resolution
Raster(fg, dpi) == [fig |-> fg, dpi |-> dpi, bbox |-> "tight"]

DisplayDpi == 200       \* st.pyplot(fig): the display's own savefig, at Streamlit's default dpi
ExportDpi == 150        \* fig.savefig(img_buffer, format='png', dpi=150, bbox_inches='tight')

\* fig.savefig(img_buffer, ...) of generate_pdf: the PNG written to the buffer
SavefigRerendered(fg) == Raster([fg EXCEPT !.legend = ~fg.legend], ExportDpi)

Savefig(fg) == Raster(fg, ExportDpi)

\* the figure after a savefig call: savefig restores what it changes while drawing
AfterSavefigCleared(fg) == NoFig

AfterSavefig(fg) == fg

\* ------------------------------------------------------------- the table
\* np.round(v, 6): the nearest multiple of 1e-6 (ties to even), in units of 1e-6;
\* 1e6 / Unit = 15625 / 128
Round6(v) == (v \div Unit) * 1000000 + RoundShift((v % Unit) * 15625, 7)

\* coords: one row per point, index = np.arange(1, n+1)
CoordsBug(f, px, py) ==
    [i \in 1..Len(px) |->
        [index |-> i - 1, x |-> Round6(px[i]), y |-> Round6(py[i]),
         unit_x |-> f.unit, unit_y |-> f.unit]]

Coords(f, px, py) ==
    [i \in 1..f.n_points |->
        [index |-> i, x |-> Round6(px[i]), y |-> Round6(py[i]),
         unit_x |-> f.unit, unit_y |-> f.unit]]

\* ---------------------------------------------------------- generate_pdf
\* reportlab's A4 = (210*mm, 297*mm) with mm = 72/25.4 points
PageW == Rat(210 * 720, 254)

PageH == Rat(297 * 720, 254)

Margin == 40            \* left margin, and the space kept at the bottom
LineStep == 14          \* y -= 14 after each text line
ImageGap == 10          \* y_img = y - ih_scaled - 10

\* c.drawString(x, y, text) in the current font
DrawString(font, y, text) ==
    [op |-> "string", font |-> font, x |-> RInt(Margin), y |-> y, text |-> text]

TitleLine == DrawString("Helvetica-Bold 16", RSub(PageH, RInt(50)), <<"Kruznice z bodu - Vystup">>)

\* for k, v in params.items(): c.drawString(40, y, f"{k}: {v}"); y -= 14
RECURSIVE DrawParams(_, _, _)
DrawParams(ops, y, prm) ==
    IF prm = <<>> THEN [ops |-> ops, y |-> y]
    ELSE DrawParams(Append(ops, DrawString("Helvetica 10", y, <<prm[1][1], ": ", prm[1][2]>>)),
                    RSub(y, RInt(LineStep)), Tail(prm))

\* if value: c.drawString(40, y, f"<label>{value}"); y -= 14
DrawOptionalBug(st, label, value) ==
    [ops |-> Append(st.ops, DrawString("Helvetica 10", st.y, <<label, value>>)),
     y   |-> RSub(st.y, RInt(LineStep))]

DrawOptional(st, label, value) ==
    IF value # ""
    THEN [ops |-> Append(st.ops, DrawString("Helvetica 10", st.y, <<label, value>>)),
          y   |-> RSub(st.y, RInt(LineStep))]
    ELSE st

\* the title and the text block: lines 133-152
TextBlock(prm, name, contact, nts) ==
    DrawOptional(
        DrawOptional(
            DrawOptional(DrawParams(<<TitleLine>>, RSub(PageH, RInt(80)), prm),
                         "Tiskl: ", name),
            "Kontakt: ", contact),
        "Poznamky: ", nts)

\* img_max_width = width - 80
ImgMaxWidth == RSub(PageW, RInt(80))

\* img_max_height = y - 40
ImgMaxHeight(y) == RSub(y, RInt(Margin))

\* scale = min(img_max_width / iw, img_max_height / ih, 1.0)
ScaleNoCap(mw, mh, iw, ih) == RMin(RDivInt(mw, iw), RDivInt(mh, ih))

Scale(mw, mh, iw, ih) == RMin(RMin(RDivInt(mw, iw), RDivInt(mh, ih)), RInt(1))

\* the except branch: c.drawString(40, y - 20, f"Chyba pri vkladani obrazku: {e}")
ErrorLine(y, e) ==
    DrawString("Helvetica 10", RSub(y, RInt(20)), <<"Chyba pri vkladani obrazku: ", e>>)

\* the try block, lines 155-169: the operation drawn in the image's place.
\* env.fail names the library call that raises, env.size is what getSize returns.
EmbedImage(img, y, env) ==
    IF env.fail = "read" THEN ErrorLine(y, "ImageReader")
    ELSE IF env.fail = "size" THEN ErrorLine(y, "getSize")
    ELSE LET iw == env.size[1]
             ih == env.size[2]
         IN  IF iw = 0 \/ ih = 0 THEN ErrorLine(y, "float division by zero")
             ELSE LET scale     == Scale(ImgMaxWidth, ImgMaxHeight(y), iw, ih)
                      iw_scaled == RMul(RInt(iw), scale)
                      ih_scaled == RMul(RInt(ih), scale)
                      y_img     == RSub(RSub(y, ih_scaled), RInt(ImageGap))
                  IN  IF env.fail = "draw" THEN ErrorLine(y, "drawImage")
                      ELSE [op |-> "image", img |-> img, size |-> <<iw, ih>>,
                            x |-> RInt(Margin), y |-> y_img,
                            width |-> iw_scaled, height |-> ih_scaled]

\* the outcome of a call: an exception, or the bytes of the saved page
Raised(e) == [raised |-> TRUE, exc |-> e, doc |-> <<>>]

Returned(ops) == [raised |-> FALSE, exc |-> "", doc |-> ops]

\* generate_pdf(fig, params, author_name, author_contact, notes)
GeneratePdfNoTry(fg, prm, name, contact, nts, env) ==
    IF env.fail = "savefig" THEN Raised("savefig")
    ELSE LET img == Savefig(fg)
             txt == TextBlock(prm, name, contact, nts)
             emb == EmbedImage(img, txt.y, env)
         IN  IF env.fail = "save" THEN Raised("save")
             ELSE IF emb.op = "string" THEN Raised(emb.text[2])
             ELSE Returned(Append(txt.ops, emb))

GeneratePdf(fg, prm, name, contact, nts, env) ==
    IF env.fail = "savefig" THEN Raised("savefig")
    ELSE LET img == Savefig(fg)
             txt == TextBlock(prm, name, contact, nts)
             ops == Append(txt.ops, EmbedImage(img, txt.y, env))
         IN  IF env.fail = "save" THEN Raised("save") ELSE Returned(ops)

\* what the libraries may do during one call: the call that raises (if any) and
\* the pixel size of the rasterized figure
ImgDims == {400 * k : k \in 0..MaxImgDim}

Envs ==
    [fail : {"savefig", "save", "read", "size"}, size : {<<>>}]
        \cup [fail : {"none"}, size : ImgDims \X ImgDims]
        \cup [fail : {"draw"}, size : (ImgDims \ {0}) \X (ImgDims \ {0})]

\* params = {...}: lines 177-184, in insertion order
Params(f) ==
    << <<"Stred x", f.cx>>, <<"Stred y", f.cy>>, <<"Polomer", f.radius>>,
       <<"Pocet bodu", f.n_points>>, <<"Barva bodu", f.color>>, <<"Jednotka", f.unit>> >>

\* ------------------------------------------------------------- the state
VARIABLES
    form,       \* the widgets' current values (owned by Streamlit)
    pressed,    \* st.button(...) of this run: TRUE only in the run its click started
    pc,         \* where the script run is: "geometry" .. "export", or "idle"
    angles,     \* angles (in turns), <<>> before line 60
    xs, ys,     \* the sampled points
    fig,        \* the Matplotlib figure of this run
    coords,     \* the DataFrame's rows
    params,     \* the params dict, as its items in order
    pdf,        \* the outcome of this run's generate_pdf call
    calls,      \* the number of generate_pdf calls of this run
    screen,     \* the elements this run has put on the page, in order
    steps,      \* the script sections this run has executed, in order
    libs        \* what the libraries did during this run's generate_pdf call

vars == <<form, pressed, pc, angles, xs, ys, fig, coords, params, pdf, calls, screen, steps, libs>>

NoLibs == [fail |-> "none", size |-> <<>>]

NoPdf == [raised |-> FALSE, exc |-> "", doc |-> <<>>]

\* a script run starts from the top with nothing computed and an empty page
StartRunBug ==
    /\ pc' = "geometry"
    /\ angles' = <<>> /\ xs' = <<>> /\ ys' = <<>>
    /\ fig' = NoFig /\ coords' = <<>> /\ params' = <<>>
    /\ calls' = 0 /\ steps' = <<>>
    /\ libs' = NoLibs
    /\ UNCHANGED <<pdf, screen>>

StartRun ==
    /\ pc' = "geometry"
    /\ angles' = <<>> /\ xs' = <<>> /\ ys' = <<>>
    /\ fig' = NoFig /\ coords' = <<>> /\ params' = <<>>
    /\ pdf' = NoPdf /\ calls' = 0
    /\ screen' = <<>> /\ steps' = <<>>
    /\ libs' = NoLibs

\* the first run, on page load, with the widgets' defaults
Init ==
    /\ form = DefaultForm
    /\ pressed = FALSE
    /\ pc = "geometry"
    /\ angles = <<>> /\ xs = <<>> /\ ys = <<>>
    /\ fig = NoFig /\ coords = <<>> /\ params = <<>>
    /\ pdf = NoPdf /\ calls = 0
    /\ screen = <<>> /\ steps = <<>>
    /\ libs = NoLibs

\* the user changes one widget: Streamlit reruns the script
ChangeField ==
    /\ pc = "idle"
    /\ \E f \in Fields : \E v \in FieldValues[f] :
          /\ v # form[f]
          /\ form' = [form EXCEPT ![f] = v]
    /\ pressed' = FALSE
    /\ StartRun

\* the user clicks the export button: Streamlit reruns the script
PressExport ==
    /\ pc = "idle"
    /\ pressed' = TRUE
    /\ form' = form
    /\ StartRun

\* lines 59-62
Geometry ==
    /\ pc = "geometry"
    /\ angles' = Linspace(form.n_points)
    /\ xs' = PointsX(form, Linspace(form.n_points))
    /\ ys' = PointsY(form, Linspace(form.n_points))
    /\ steps' = Append(steps, "geometry")
    /\ pc' = "render"
    /\ UNCHANGED <<form, pressed, fig, coords, params, pdf, calls, screen, libs>>

\* lines 64-94
Render ==
    /\ pc = "render"
    /\ fig' = Figure(form, xs, ys)
    /\ steps' = Append(steps, "render")
    /\ pc' = "display"
    /\ UNCHANGED <<form, pressed, angles, xs, ys, coords, params, pdf, calls, screen, libs>>

\* line 97: st.pyplot(fig); the figure is given, so it is not cleared
Display ==
    /\ pc = "display"
    /\ screen' = Append(screen, [kind |-> "pyplot", image |-> Raster(fig, DisplayDpi)])
    /\ pc' = "table"
    /\ UNCHANGED <<form, pressed, angles, xs, ys, fig, coords, params, pdf, calls, steps, libs>>

\* lines 99-103
Table ==
    /\ pc = "table"
    /\ coords' = Coords(form, xs, ys)
    /\ screen' = Append(screen, [kind |-> "dataframe", rows |-> Coords(form, xs, ys)])
    /\ steps' = Append(steps, "table")
    /\ pc' = "params"
    /\ UNCHANGED <<form, pressed, angles, xs, ys, fig, params, pdf, calls, libs>>

\* lines 114-118 and 177-184: the author widgets are read and params is built
BuildParams ==
    /\ pc = "params"
    /\ params' = Params(form)
    /\ pc' = "export"
    /\ UNCHANGED <<form, pressed, angles, xs, ys, fig, coords, pdf, calls, screen, steps, libs>>

\* what the button handler puts on the page for outcome r of generate_pdf
HandlerOutputBug(r) ==
    << [kind |-> "success", text |-> "PDF vygenerovano"],
       [kind |-> "download", data |-> r.doc, file_name |-> "kruznice_vystup.pdf",
        mime |-> "application/pdf"] >>

HandlerOutput(r) ==
    IF r.raised
    THEN << [kind |-> "error", text |-> <<"Chyba pri generovani PDF: ", r.exc>>] >>
    ELSE << [kind |-> "success", text |-> "PDF vygenerovano"],
            [kind |-> "download", data |-> r.doc, file_name |-> "kruznice_vystup.pdf",
             mime |-> "application/pdf"] >>

\* lines 186-192 with the button pressed: one call of generate_pdf under try
ExportPressed ==
    /\ pc = "export"
    /\ pressed
    /\ \E env \in Envs :
          LET r == GeneratePdf(fig, params, form.author_name, form.author_contact,
                               form.notes, env)
          IN  /\ pdf' = r
              /\ screen' = screen \o HandlerOutput(r)
              /\ libs' = env
              /\ fig' = IF env.fail = "savefig" THEN fig ELSE AfterSavefig(fig)
    /\ calls' = calls + 1
    /\ steps' = Append(steps, "export")
    /\ pc' = "idle"
    /\ UNCHANGED <<form, pressed, angles, xs, ys, coords, params>>

\* line 186 with the button not pressed: the handler is skipped
ExportSkipped ==
    /\ pc = "export"
    /\ ~pressed
    /\ pc' = "idle"
    /\ UNCHANGED <<form, pressed, angles, xs, ys, fig, coords, params, pdf, calls, screen, steps, libs>>

Next ==
    \/ ChangeField
    \/ PressExport
    \/ Geometry
    \/ Render
    \/ Display
    \/ Table
    \/ BuildParams
    \/ ExportPressed
    \/ ExportSkipped

Spec == Init /\ [][Next]_vars

\* ------------------------------------------------------------ properties
\* the run called generate_pdf and the handler has finished
Exported == pc = "idle" /\ calls = 1

\* an exception was raised inside the try block of generate_pdf
EmbeddingFailed ==
    \/ libs.fail \in {"read", "size", "draw"}
    \/ libs.fail = "none" /\ libs.size # <<>> /\ (libs.size[1] = 0 \/ libs.size[2] = 0)

\* the returned page holds an image
HasImage == Exported /\ ~pdf.raised /\ pdf.doc[Len(pdf.doc)].op = "image"

TheImage == pdf.doc[Len(pdf.doc)]

\* the number of the form's optional values that are non-empty
OptionalCount ==
    (IF form.author_name # "" THEN 1 ELSE 0) + (IF form.author_contact # "" THEN 1 ELSE 0)
        + (IF form.notes # "" THEN 1 ELSE 0)

\* the baseline below the last text line: the value of y when the try block starts
TextBottom == RSub(PageH, RInt(80 + LineStep * (Len(params) + OptionalCount)))

\* C1: when the plot was rasterized and a step of image embedding raises,
\* generate_pdf still returns a page: the title, every parameter line and every
\* optional line drawn before, then one error message line in place of the image;
\* no exception reaches the handler, which offers the page for download.
InvC1 ==
    (Exported /\ EmbeddingFailed) =>
        /\ ~pdf.raised
        /\ Len(pdf.doc) = 1 + Len(params) + OptionalCount + 1
        /\ \A i \in 1..Len(pdf.doc) : pdf.doc[i].op = "string"
        /\ pdf.doc[1] = TitleLine
        /\ \A i \in 1..Len(params) : pdf.doc[1 + i].text[1] = params[i][1]
        /\ SubSeq(pdf.doc, 1, Len(pdf.doc) - 1)
              = TextBlock(params, form.author_name, form.author_contact, form.notes).ops
        /\ pdf.doc[Len(pdf.doc)].text[1] = "Chyba pri vkladani obrazku: "
        /\ pdf.doc[Len(pdf.doc)].y = RSub(TextBottom, RInt(20))
        /\ \A i \in 1..Len(screen) : screen[i].kind # "error"
        /\ screen[Len(screen)].kind = "download"
        /\ screen[Len(screen)].data = pdf.doc

WitC1 == Exported /\ libs.fail = "draw" /\ ~pdf.raised /\ form.notes # ""

\* C2: when export is pressed and generate_pdf fails outside image embedding
\* (savefig, or composing/saving the page), the run ends with one error message,
\* no success message and no download, no page is produced, and generate_pdf is
\* called once.
InvC2 ==
    /\ calls <= 1
    /\ (Exported /\ libs.fail \in {"savefig", "save"}) =>
          /\ pdf.raised
          /\ pdf.doc = <<>>
          /\ Len(screen) = 3
          /\ screen[3].kind = "error"
          /\ \A i \in 1..Len(screen) : screen[i].kind \notin {"success", "download"}

WitC2 == Exported /\ libs.fail = "save" /\ screen[Len(screen)].kind = "error"

\* C3: the scale applied to the image is min(max_width/iw, max_height/ih, 1.0):
\* it is at most 1.0, the same factor gives the width and the height, and the
\* aspect ratio is kept (width * ih = height * iw).
InvC3 ==
    HasImage =>
        LET iw    == TheImage.size[1]
            ih    == TheImage.size[2]
            scale == RDivInt(TheImage.width, iw)
            byW   == RDivInt(RSub(PageW, RInt(80)), iw)
            byH   == RDivInt(RSub(TextBottom, RInt(40)), ih)
        IN  /\ RLe(scale, RInt(1)) /\ RLe(scale, byW) /\ RLe(scale, byH)
            /\ scale \in {RInt(1), byW, byH}
            /\ RDivInt(TheImage.height, ih) = scale
            /\ RMul(TheImage.width, RInt(ih)) = RMul(TheImage.height, RInt(iw))

\* an image that had to be scaled down, below a text block with all optional lines
WitC3 == HasImage /\ RLt(TheImage.width, RInt(TheImage.size[1])) /\ OptionalCount = 3

\* C4: the image rectangle has positive width and height, is left-aligned at
\* x = 40, has its top edge 10 below the text block, is at most page width minus
\* both margins wide, and lies inside the space between the text block and the
\* bottom margin: its bottom edge is not below y = 40.
InvC4 ==
    HasImage =>
        /\ RLt(RInt(0), TheImage.width) /\ RLt(RInt(0), TheImage.height)
        /\ TheImage.x = RInt(40)
        /\ RSub(RSub(TextBottom, RInt(10)), TheImage.height) = TheImage.y
        /\ RLe(TheImage.width, RSub(PageW, RInt(80)))
        /\ RLe(RInt(40), TheImage.y)

\* C5: the text block is one line per entry of params, in order, then the
\* "Tiskl" line iff author_name is non-empty, the "Kontakt" line iff
\* author_contact is non-empty and the "Poznamky" line iff notes is non-empty,
\* in that order; each line is 14 below the one before, so an absent line leaves
\* no gap.
InvC5 ==
    (Exported /\ ~pdf.raised) =>
        LET labels == (IF form.author_name # "" THEN <<"Tiskl: ">> ELSE <<>>)
                         \o (IF form.author_contact # "" THEN <<"Kontakt: ">> ELSE <<>>)
                         \o (IF form.notes # "" THEN <<"Poznamky: ">> ELSE <<>>)
            values == (IF form.author_name # "" THEN <<form.author_name>> ELSE <<>>)
                         \o (IF form.author_contact # "" THEN <<form.author_contact>> ELSE <<>>)
                         \o (IF form.notes # "" THEN <<form.notes>> ELSE <<>>)
            np     == Len(params)
        IN  /\ Len(pdf.doc) = 1 + np + Len(labels) + 1
            /\ pdf.doc[1] = TitleLine
            /\ \A i \in 1..np :
                  pdf.doc[1 + i].text = <<params[i][1], ": ", params[i][2]>>
            /\ \A j \in 1..Len(labels) :
                  pdf.doc[1 + np + j].text = <<labels[j], values[j]>>
            /\ \A i \in 1..(np + Len(labels)) :
                  /\ pdf.doc[1 + i].op = "string"
                  /\ pdf.doc[1 + i].x = RInt(40)
                  /\ pdf.doc[1 + i].y = RSub(PageH, RInt(80 + 14 * (i - 1)))

\* only the contact line is present: it follows the last parameter line directly
WitC5 ==
    /\ Exported /\ ~pdf.raised
    /\ form.author_name = "" /\ form.author_contact # "" /\ form.notes = ""

\* C6: the geometry step yields exactly n_points points, the k-th (k = 0..n-1)
\* at angle 2*pi*k/n, starting at 0 and excluding 2*pi; the annotations and the
\* table number them 1..n in generation order: the table has n rows, row i holds
\* index i and the i-th point, with no sorting and no deduplication.
InvC6 ==
    LET n == form.n_points
    IN  /\ pc \notin {"geometry"} =>
              /\ Len(angles) = n /\ Len(xs) = n /\ Len(ys) = n
              /\ \A i \in 1..n :
                    /\ angles[i] = Rat(i - 1, n)
                    /\ RLt(angles[i], RInt(1))
                    /\ xs[i] = FAdd(form.cx, FMul(form.radius, Cos(Rat(i - 1, n))))
                    /\ ys[i] = FAdd(form.cy, FMul(form.radius, Sin(Rat(i - 1, n))))
        /\ fig.built =>
              /\ Len(fig.texts) = n
              /\ \A i \in 1..n : fig.texts[i] = [x |-> xs[i], y |-> ys[i], s |-> i]
        /\ pc \in {"params", "export", "idle"} =>
              /\ Len(coords) = n
              /\ \A i \in 1..n :
                    /\ coords[i].index = i
                    /\ coords[i].x = Round6(xs[i])
                    /\ coords[i].y = Round6(ys[i])

\* radius 0: all points coincide, and the table still has one row for each
WitC6 == pc = "idle" /\ form.radius = 0 /\ form.n_points = 2 /\ Len(coords) = 2

\* C7 as stated: the requested bounds are center -/+ radius -/+ pad with
\* pad = max(0.1*radius, 0.1), pad = 0.1 for radius 0; the viewport has positive
\* extent, and every sampled point and the center lie strictly inside it.
OrigC7 ==
    fig.built =>
        /\ fig.pad = Max(FMul(form.radius, Tenth), Tenth)
        /\ form.radius = 0 => fig.pad = Tenth
        /\ fig.xlim = <<FSub(FSub(form.cx, form.radius), fig.pad),
                        FAdd(FAdd(form.cx, form.radius), fig.pad)>>
        /\ fig.ylim = <<FSub(FSub(form.cy, form.radius), fig.pad),
                        FAdd(FAdd(form.cy, form.radius), fig.pad)>>
        /\ fig.xlim[1] < fig.xlim[2] /\ fig.ylim[1] < fig.ylim[2]
        /\ fig.xlim[1] < form.cx /\ form.cx < fig.xlim[2]
        /\ fig.ylim[1] < form.cy /\ form.cy < fig.ylim[2]
        /\ \A i \in 1..Len(xs) :
              /\ fig.xlim[1] < xs[i] /\ xs[i] < fig.xlim[2]
              /\ fig.ylim[1] < ys[i] /\ ys[i] < fig.ylim[2]

\* the bounds of one axis contain v, strictly unless pad was lost in rounding
Inside(lim, c, v) ==
    /\ lim[1] <= v /\ v <= lim[2]
    /\ (lim[1] < FSub(c, form.radius) /\ FAdd(c, form.radius) < lim[2]) =>
          (lim[1] < v /\ v < lim[2])

\* C7, amended: the requested bounds are the floating-point values of
\* center -/+ radius -/+ pad with pad = max(0.1*radius, 0.1), pad = 0.1 for
\* radius 0; the center and every sampled point lie inside them (low <= v <=
\* high); the extent is positive and they lie strictly inside whenever
\* low < fl(center - radius) and fl(center + radius) < high, that is, whenever
\* pad is not lost in the rounding of the sum.
InvC7 ==
    fig.built =>
        /\ fig.pad = Max(FMul(form.radius, Tenth), Tenth)
        /\ form.radius = 0 => fig.pad = Tenth
        /\ fig.xlim = <<FSub(FSub(form.cx, form.radius), fig.pad),
                        FAdd(FAdd(form.cx, form.radius), fig.pad)>>
        /\ fig.ylim = <<FSub(FSub(form.cy, form.radius), fig.pad),
                        FAdd(FAdd(form.cy, form.radius), fig.pad)>>
        /\ Inside(fig.xlim, form.cx, form.cx)
        /\ Inside(fig.ylim, form.cy, form.cy)
        /\ \A i \in 1..Len(xs) :
              /\ Inside(fig.xlim, form.cx, xs[i])
              /\ Inside(fig.ylim, form.cy, ys[i])

\* radius 0 at an ordinary center: pad is 0.1 and the viewport has positive extent
WitC7 ==
    /\ fig.built /\ form.radius = 0 /\ form.cx # BigCenter
    /\ fig.pad = Tenth /\ fig.xlim[1] < form.cx /\ form.cx < fig.xlim[2]

\* C8: generate_pdf only reads its inputs: over a call, whether it returns a
\* full page, a degraded page, or raises, the figure, params and the
\* author_name, author_contact and notes values are unchanged.
PropC8 ==
    [][(pc = "export" /\ pressed) =>
          /\ fig' = fig
          /\ params' = params
          /\ form' = form]_vars

WitC8 == Exported /\ pdf.raised /\ fig.built /\ params # <<>>

\* C9: a run executes geometry, render, table and then export, the last iff the
\* button was pressed in the action that started it; what a finished run shows
\* (points, plot, table, page, success or error message) is computed from the
\* form values of that run, and nothing of an earlier run (its error, its page)
\* is on the page.
InvC9 ==
    /\ \E k \in 0..4 : steps = SubSeq(<<"geometry", "render", "table", "export">>, 1, k)
    /\ pc = "idle" =>
          /\ steps = <<"geometry", "render", "table">>
                        \o (IF pressed THEN <<"export">> ELSE <<>>)
          /\ calls = (IF pressed THEN 1 ELSE 0)
          /\ xs = PointsX(form, Linspace(form.n_points))
          /\ ys = PointsY(form, Linspace(form.n_points))
          /\ fig = Figure(form, xs, ys)
          /\ coords = Coords(form, xs, ys)
          /\ screen[1] = [kind |-> "pyplot", image |-> Raster(fig, DisplayDpi)]
          /\ screen[2] = [kind |-> "dataframe", rows |-> coords]
          /\ ~pressed => (Len(screen) = 2 /\ pdf = NoPdf)
          /\ pressed =>
                /\ SubSeq(screen, 3, Len(screen)) = HandlerOutput(pdf)
                /\ ~pdf.raised =>
                      SubSeq(pdf.doc, 1, Len(pdf.doc) - 1)
                          = TextBlock(Params(form), form.author_name,
                                      form.author_contact, form.notes).ops

\* a run without export that follows a run whose export failed
WitC9 == pc = "idle" /\ ~pressed /\ form.notes # "" /\ form.cx # 0 /\ Len(screen) = 2

\* C10 as stated: the exported image is the displayed one, pixel for pixel.
OrigC10 ==
    HasImage =>
        /\ TheImage.img.fig = fig
        /\ TheImage.img = screen[1].image

\* C10, amended: the image embedded in the page is rasterized by generate_pdf
\* (150 dpi, tight bounding box) from the same figure that was displayed in that
\* run; the figure is the one built from the run's form values and is unchanged
\* between display and export.  The display makes its own rasterization of that
\* figure, so the two show the same plot without being the same pixels.
InvC10 ==
    /\ HasImage =>
          /\ TheImage.img.fig = screen[1].image.fig
          /\ TheImage.img.fig = Figure(form, xs, ys)
          /\ TheImage.img.dpi = ExportDpi /\ TheImage.img.bbox = "tight"
    /\ (pc \in {"table", "params", "export"} \/ pc = "idle") =>
          screen[1].image.fig = fig

WitC10 == HasImage /\ form.show_labels /\ TheImage.img.fig.legend

====
